---- MODULE Spec2Model ----
(***************************************************************************)
(* pycaw/utils.py: the AudioDevice, AudioSession and AudioUtilities        *)
(* wrappers over the native (COM) audio object graph.                      *)
(*                                                                         *)
(* Python values are tagged tuples: None is <<"None">>, a str is           *)
(* <<"str", ...>>, a native key is <<"PROPERTYKEY", k>>, an activated      *)
(* interface is <<"handle", interface, serial>>.  A dict is a function     *)
(* whose domain is its key set.  Every wrapper method is an operator from  *)
(* the wrapper and the native object to a result record                    *)
(*   [ret, raised, w, native]                                              *)
(* (value returned, whether an exception left the method, the wrapper      *)
(* after the call, the native calls made in order); the actions apply the  *)
(* operators to the state.                                                 *)
(***************************************************************************)
EXTENDS Integers, Sequences, FiniteSets, TLC

VARIABLES
    mmdevices,        \* the native endpoints (IMMDevice), in enumeration order
    deviceEnumerator, \* what GetDeviceEnumerator() yields: None or the enumerator
    activations,      \* per interface: outcomes of the native Activate calls made through `device`
    device,           \* the AudioDevice wrapper under test, over mmdevices[1]
    firstRead,        \* what the first read of device.properties returned (None before it)
    ctl,              \* the native session control (IAudioSessionControl2) behind `session`
    ctlCalls,         \* the register/unregister calls `session` made on ctl, in order
    session,          \* the AudioSession wrapper under test
    peer,             \* a second AudioSession wrapper, over another native session
    narrowings,       \* per session wrapper and interface: outcomes of its native QueryInterface calls
    processes,        \* the operating system's process table: per pid, alive and which incarnation
    threads,          \* the threads inside device.ActivateInterface: position and locals
    last              \* the last operation: its name, argument, result and pre-state

vars ==
    <<mmdevices, deviceEnumerator, activations, device, firstRead, ctl, ctlCalls, session,
      peer, narrowings, processes, threads, last>>

\* the native session control and its wrapper
\* the second wrapper and the narrowing calls of both
peerVars == <<peer, narrowings>>

sessionVars == <<ctl, ctlCalls, session, peerVars>>

\* the process table and the threads
hostVars == <<processes, threads>>

-----------------------------------------------------------------------------
(* Bounds *)

\* native Activate calls per interface through one wrapper
MaxActivate == 3
\* entries of a property store
MaxProps == 2
\* native endpoints
MaxDevices == 2
\* session entries over all endpoints
MaxSessions == 2
\* register/unregister calls reaching the native session control
MaxCtlCalls == 3
\* processes the operating system starts under one pid, one after the other
MaxIncarnations == 2
\* native QueryInterface calls per interface through one session wrapper
MaxNarrow == 2
\* threads calling ActivateInterface on one wrapper
MaxThreads == 2

-----------------------------------------------------------------------------
(* Python values *)

None == <<"None">>

\* str(x): the text of x, a value of another type than x
str(x) == <<"str">> \o x

\* {} and dict item assignment d[k] = v
EmptyDict == [k \in {} |-> None]

DictSet(d, k, v) == [x \in (DOMAIN d) \cup {k} |-> IF x = k THEN v ELSE d[x]]

\* a dict held where None may be held too (a field, a return value)
PyDict(d) == <<"dict", d>>

\* the interface classes handed to ActivateInterface / QueryInterface;
\* IUnknownBase stands for a descriptor whose _iid_ is None
Interfaces == {"IAudioEndpointVolume", "IAudioSessionManager2", "IUnknownBase"}

iid(interface) == IF interface = "IUnknownBase" THEN None ELSE <<"GUID", interface>>

\* the interface classes handed to AudioSession.QueryInterface
SessionInterfaces == {"ISimpleAudioVolume", "IChannelAudioVolume", "IUnknownBase"}

\* outcomes of the native Activate + QueryInterface pair
ActivateOutcomes == {"ok", "ActivateFails", "QueryInterfaceFails"}

Handle(interface, serial) == <<"handle", interface, serial>>

AudioDeviceState(s) == <<"AudioDeviceState", s>>

DeviceStates == {"Active", "Disabled", "NotPresent", "Unplugged"}

\* what a method call did: the value returned, whether an exception left the
\* method, the wrapper afterwards, the native calls made, the warnings issued
Result(ret, raised, w, native) ==
    [ret |-> ret, raised |-> raised, w |-> w, native |-> native, warnings |-> 0]

-----------------------------------------------------------------------------
(* class AudioDevice *)

\* the reference to the i-th native endpoint
IMMDevice(i) == <<"IMMDevice", i>>

AudioDevice(dev) ==
    [_dev |-> dev, _id |-> None, _state |-> None, _properties |-> None,
     _interfaces |-> EmptyDict]

\* the same method without the membership test: activates on every call
ActivateInterfaceNoCache(w, interface, outcome, serial) ==
    LET interface_id == iid(interface)
        interface_name == str(interface_id)
    IN  IF interface_id = None THEN Result(None, FALSE, w, <<>>)
        ELSE IF outcome = "ActivateFails"
             THEN Result(None, TRUE, w, << <<"Activate", interface>> >>)
        ELSE IF outcome = "QueryInterfaceFails"
             THEN Result(None, TRUE, w,
                         << <<"Activate", interface>>, <<"QueryInterface", interface>> >>)
        ELSE Result(Handle(interface, serial), FALSE,
                    [w EXCEPT !._interfaces = DictSet(@, interface_name, Handle(interface, serial))],
                    << <<"Activate", interface>>, <<"QueryInterface", interface>> >>)

\* the same method storing None for a type whose activation failed
ActivateInterfaceStoresFailure(w, interface, outcome, serial) ==
    LET interface_id == iid(interface)
        interface_name == str(interface_id)
    IN  IF interface_id = None THEN Result(None, FALSE, w, <<>>)
        ELSE IF interface_name \notin DOMAIN w._interfaces
        THEN IF outcome = "ActivateFails"
             THEN Result(None, TRUE, [w EXCEPT !._interfaces = DictSet(@, interface_name, None)],
                         << <<"Activate", interface>> >>)
             ELSE IF outcome = "QueryInterfaceFails"
             THEN Result(None, TRUE, [w EXCEPT !._interfaces = DictSet(@, interface_name, None)],
                         << <<"Activate", interface>>, <<"QueryInterface", interface>> >>)
             ELSE Result(Handle(interface, serial), FALSE,
                         [w EXCEPT !._interfaces =
                              DictSet(@, interface_name, Handle(interface, serial))],
                         << <<"Activate", interface>>, <<"QueryInterface", interface>> >>)
        ELSE Result(w._interfaces[interface_name], FALSE, w, <<>>)

\* outcome: what the native Activate/QueryInterface pair does if it is called;
\* serial: the identity of the object a successful Activate returns
ActivateInterface(w, interface, outcome, serial) ==
    LET interface_id == iid(interface)
        interface_name == str(interface_id)
    IN  IF interface_id = None THEN Result(None, FALSE, w, <<>>)
        ELSE IF interface_name \notin DOMAIN w._interfaces
        THEN IF outcome = "ActivateFails"
             THEN Result(None, TRUE, w, << <<"Activate", interface>> >>)
             ELSE IF outcome = "QueryInterfaceFails"
             THEN Result(None, TRUE, w,
                         << <<"Activate", interface>>, <<"QueryInterface", interface>> >>)
             ELSE Result(Handle(interface, serial), FALSE,
                         [w EXCEPT !._interfaces =
                              DictSet(@, interface_name, Handle(interface, serial))],
                         << <<"Activate", interface>>, <<"QueryInterface", interface>> >>)
        ELSE Result(w._interfaces[interface_name], FALSE, w, <<>>)

\* the same property without the fetch-once guard: asks the endpoint on every read
idRefetch(w, nd) ==
    Result(nd.devId, FALSE, [w EXCEPT !._id = nd.devId], << <<"GetId">> >>)

\* property id (lines 58-62); nd is the native endpoint behind w._dev
id(w, nd) ==
    IF w._id = None
    THEN Result(nd.devId, FALSE, [w EXCEPT !._id = nd.devId], << <<"GetId">> >>)
    ELSE Result(w._id, FALSE, w, <<>>)

\* property state (lines 64-69)
state(w, nd) ==
    IF w._state = None
    THEN Result(AudioDeviceState(nd.devState), FALSE,
                [w EXCEPT !._state = AudioDeviceState(nd.devState)], << <<"GetState">> >>)
    ELSE Result(w._state, FALSE, w, <<>>)

\* the key object store.GetAt(j) returns
PROPERTYKEY(k) == <<"PROPERTYKEY", k>>

\* the for loop of getProperty from index j on: [ret, native, warnings]
RECURSIVE getPropertyScan(_, _, _)
getPropertyScan(entries, key, j) ==
    IF j > Len(entries) THEN [ret |-> None, native |-> <<>>, warnings |-> 0]
    ELSE LET pk == entries[j].pk
             name == str(pk)
         IN  IF name # key
             THEN LET rest == getPropertyScan(entries, key, j + 1)
                  IN  [rest EXCEPT !.native = << <<"GetAt">> >> \o @]
             ELSE IF entries[j].fails
             THEN [ret |-> PyDict(EmptyDict),
                   native |-> << <<"GetAt">>, <<"GetValue">> >>, warnings |-> 1]
             ELSE [ret |-> entries[j].value,
                   native |-> << <<"GetAt">>, <<"GetValue">> >>, warnings |-> 0]

\* getProperty(self, key) (lines 71-95): [ret, native, warnings]
getProperty(w, nd, key) ==
    IF ~nd.store.present
    THEN [ret |-> None, native |-> << <<"OpenPropertyStore">> >>, warnings |-> 0]
    ELSE LET scan == getPropertyScan(nd.store.entries, key, 1)
         IN  [scan EXCEPT !.native = << <<"OpenPropertyStore">>, <<"GetCount">> >> \o @]

\* the for loop of properties from index j on; acc = [properties, native, warnings]
RECURSIVE propertiesLoop(_, _, _, _)
propertiesLoop(w, nd, j, acc) ==
    IF j > Len(nd.store.entries) THEN acc
    ELSE LET pk == nd.store.entries[j].pk
             value == getProperty(w, nd, pk)
             name == str(pk)
             seen == [acc EXCEPT !.native = @ \o << <<"GetAt">> >> \o value.native,
                                 !.warnings = @ + value.warnings]
         IN  IF value.ret = None
             THEN propertiesLoop(w, nd, j + 1, seen)
             ELSE propertiesLoop(w, nd, j + 1,
                      [seen EXCEPT !.properties = DictSet(@, name, value.ret)])

\* property properties (lines 97-116)
properties(w, nd) ==
    IF w._properties = None
    THEN IF ~nd.store.present
         THEN Result(PyDict(EmptyDict), FALSE, w, << <<"OpenPropertyStore">> >>)
         ELSE LET loop == propertiesLoop(w, nd, 1,
                              [properties |-> EmptyDict,
                               native |-> << <<"OpenPropertyStore">>, <<"GetCount">> >>,
                               warnings |-> 0])
              IN  [Result(PyDict(loop.properties), FALSE,
                          [w EXCEPT !._properties = PyDict(loop.properties)], loop.native)
                   EXCEPT !.warnings = loop.warnings]
    ELSE Result(w._properties, FALSE, w, <<>>)

\* property AudioSessionManager (lines 144-146)
AudioSessionManager(w, outcome, serial) ==
    ActivateInterface(w, "IAudioSessionManager2", outcome, serial)

-----------------------------------------------------------------------------
(* class AudioSession *)

AudioSession(audio_session_control2) ==
    [_ctl |-> audio_session_control2, _process |-> None, _interfaces |-> EmptyDict,
     _callback |-> None]

\* the native session control that entry i of endpoint dev's enumerator narrows to
SessionControl(dev, i) == <<"IAudioSessionControl2", dev, i>>

-----------------------------------------------------------------------------
(* AudioDevice.Sessions *)

\* the same loop ending at the first entry it would skip
RECURSIVE SessionsLoopBreak(_, _, _)
SessionsLoopBreak(dev, entries, i) ==
    IF i > Len(entries) THEN [sessions |-> <<>>, native |-> <<>>]
    ELSE IF entries[i].null
    THEN [sessions |-> <<>>, native |-> << <<"GetSession">> >>]
    ELSE IF entries[i].ctl2
    THEN LET rest == SessionsLoopBreak(dev, entries, i + 1)
         IN  [sessions |-> <<AudioSession(SessionControl(dev, i))>> \o rest.sessions,
              native |-> << <<"GetSession">>, <<"QueryInterface", "IAudioSessionControl2">> >>
                         \o rest.native]
    ELSE [sessions |-> <<>>,
          native |-> << <<"GetSession">>, <<"QueryInterface", "IAudioSessionControl2">> >>]

\* the for loop of Sessions from index i on: [sessions, native]
RECURSIVE SessionsLoop(_, _, _)
SessionsLoop(dev, entries, i) ==
    IF i > Len(entries) THEN [sessions |-> <<>>, native |-> <<>>]
    ELSE LET rest == SessionsLoop(dev, entries, i + 1)
         IN  IF entries[i].null
             THEN [rest EXCEPT !.native = << <<"GetSession">> >> \o @]
             ELSE IF entries[i].ctl2
             THEN [sessions |-> <<AudioSession(SessionControl(dev, i))>> \o rest.sessions,
                   native |-> << <<"GetSession">>, <<"QueryInterface", "IAudioSessionControl2">> >>
                              \o rest.native]
             ELSE [rest EXCEPT !.native =
                       << <<"GetSession">>, <<"QueryInterface", "IAudioSessionControl2">> >> \o @]

\* the same property without the test of the cached state
SessionsUnguarded(w, nd, outcome, serial) ==
    LET st == state(w, nd)
        mgr == AudioSessionManager(st.w, outcome, serial)
    IN  IF mgr.raised
        THEN Result(None, TRUE, mgr.w, st.native \o mgr.native)
        ELSE IF ~nd.hasEnumerator
        THEN Result(<<>>, FALSE, mgr.w, st.native \o mgr.native)
        ELSE LET loop == SessionsLoop(w._dev, nd.sessions, 1)
             IN  Result(loop.sessions, FALSE, mgr.w,
                        st.native \o mgr.native
                        \o << <<"GetSessionEnumerator">>, <<"GetCount">> >>
                        \o loop.native)

\* property Sessions (lines 148-173)
Sessions(w, nd, outcome, serial) ==
    LET st == state(w, nd)
    IN  IF st.ret # AudioDeviceState("Active")
        THEN Result(<<>>, FALSE, st.w, st.native)
        ELSE LET mgr == AudioSessionManager(st.w, outcome, serial)
             IN  IF mgr.raised
                 THEN Result(None, TRUE, mgr.w, st.native \o mgr.native)
                 ELSE IF ~nd.hasEnumerator
                 THEN Result(<<>>, FALSE, mgr.w, st.native \o mgr.native)
                 ELSE LET loop == SessionsLoop(w._dev, nd.sessions, 1)
                      IN  Result(loop.sessions, FALSE, mgr.w,
                                 st.native \o mgr.native
                                 \o << <<"GetSessionEnumerator">>, <<"GetCount">> >>
                                 \o loop.native)

-----------------------------------------------------------------------------
(* The native objects and the record of the last call *)

\* a native endpoint: what GetId, GetState, OpenPropertyStore, the session
\* manager and its enumerator and the endpoint volume's GetMute answer
Endpoint(devId, devState, store, hasEnumerator, sessions) ==
    [devId |-> devId, devState |-> devState, flow |-> "eRender", store |-> store,
     hasEnumerator |-> hasEnumerator, sessions |-> sessions, mute |-> 0]

NoStore == [present |-> FALSE, entries |-> <<>>]

Store(entries) == [present |-> TRUE, entries |-> entries]

\* an entry of the session enumerator: a null entry, or a session control whose
\* QueryInterface(IAudioSessionControl2) returns a control (ctl2) or None,
\* owned by process pid
SessionEntry(null, ctl2, pid) ==
    [null |-> null, ctl2 |-> ctl2, pid |-> pid, state |-> <<"AudioSessionState", "Active">>]

\* the native session control: the values its getters return and the callbacks
\* registered on it and not unregistered
Control(displayName, iconPath, registered) ==
    [displayName |-> displayName, iconPath |-> iconPath, registered |-> registered]

Last(op, arg, res, pre) ==
    [op |-> op, arg |-> arg, ret |-> res.ret, raised |-> res.raised,
     native |-> res.native, warnings |-> res.warnings, pre |-> pre]

\* the record left by a step of the native side
NativeStep == Last("native", None, Result(None, FALSE, None, <<>>), None)

\* the parts of the state a specification leaves alone
IdleEndpoint == Endpoint(str(<<"dev0">>), "Active", NoStore, TRUE, <<>>)

IdleDevice ==
    /\ mmdevices = <<IdleEndpoint>>
    /\ deviceEnumerator = <<"IMMDeviceEnumerator">>
    /\ activations = [i \in Interfaces |-> <<>>]
    /\ device = AudioDevice(IMMDevice(1))
    /\ firstRead = None

IdlePeer ==
    /\ peer = AudioSession(SessionControl(IMMDevice(1), 2))
    /\ narrowings = [who \in {"session", "peer"} |-> [i \in SessionInterfaces |-> <<>>]]

IdleSession ==
    /\ ctl = Control(str(<<"">>), str(<<"">>), <<>>)
    /\ ctlCalls = <<>>
    /\ session = AudioSession(SessionControl(IMMDevice(1), 1))
    /\ IdlePeer

IdleHost ==
    /\ processes = EmptyDict
    /\ threads = <<>>

-----------------------------------------------------------------------------
(* SpecActivate: ActivateInterface calls on one AudioDevice wrapper *)

InitActivate == IdleDevice /\ IdleSession /\ IdleHost /\ last = NativeStep

\* the native Activate calls a call made, appended to the per-interface record
Activated(log, native, outcome) ==
    [i \in Interfaces |->
        IF <<"Activate", i>> \in {native[k] : k \in DOMAIN native}
        THEN Append(log[i], outcome) ELSE log[i]]

CallActivateInterface(interface, outcome) ==
    LET res == ActivateInterface(device, interface, outcome, Len(activations[interface]) + 1)
    IN  /\ Len(Activated(activations, res.native, outcome)[interface]) <= MaxActivate
        /\ device' = res.w
        /\ activations' = Activated(activations, res.native, outcome)
        /\ last' = Last("ActivateInterface", interface, res, device)
        /\ UNCHANGED <<mmdevices, deviceEnumerator, firstRead, sessionVars, hostVars>>

NextActivate ==
    \E interface \in Interfaces, outcome \in ActivateOutcomes :
        CallActivateInterface(interface, outcome)

SpecActivate == InitActivate /\ [][NextActivate]_vars

\* a call for a type identifier that is already stored
CacheHit ==
    /\ last.op = "ActivateInterface"
    /\ str(iid(last.arg)) \in DOMAIN last.pre._interfaces

\* C1 as stated: over the wrapper's lifetime the native Activate call is made
\* at most once per distinct type identifier, and a call for a stored type
\* identifier returns the stored handle without a native call.
C1_AtMostOneActivate ==
    /\ \A i \in Interfaces : Len(activations[i]) <= 1
    /\ CacheHit => /\ last.native = <<>>
                   /\ last.ret = last.pre._interfaces[str(iid(last.arg))]

\* C1 amended: a native Activate call is made only while the type identifier
\* is not stored, so at most one activation per type identifier succeeds and it
\* is the last one made (failed ones before it store nothing and may repeat);
\* a call for a stored type identifier returns the stored handle, makes no
\* native Activate or narrowing call and leaves the wrapper as it was.
C1_AtMostOneStoredActivation ==
    /\ \A i \in Interfaces : \A k \in 1..(Len(activations[i]) - 1) :
           activations[i][k] # "ok"
    /\ \A i \in Interfaces :
           str(iid(i)) \in DOMAIN device._interfaces <=>
               (activations[i] # <<>> /\ activations[i][Len(activations[i])] = "ok")
    /\ CacheHit => /\ last.native = <<>>
                   /\ ~last.raised
                   /\ last.ret = last.pre._interfaces[str(iid(last.arg))]
                   /\ device = last.pre

\* C1 witness: a cache hit on a type identifier whose first activation failed
\* and whose second one was stored
C1_Witness ==
    /\ CacheHit
    /\ Len(activations[last.arg]) = 2
    /\ last.ret = Handle(last.arg, 2)

-----------------------------------------------------------------------------
(* SpecSnapshot: id, state and Sessions read through one wrapper while the  *)
(* native endpoint changes                                                  *)

DeviceIds == {str(<<"dev0">>), str(<<"dev1">>)}

Pids == {100, 200}

InitSnapshot ==
    /\ \E devId \in DeviceIds, devState \in DeviceStates, hasEnumerator \in BOOLEAN :
          mmdevices = <<Endpoint(devId, devState, NoStore, hasEnumerator,
                                 <<SessionEntry(FALSE, TRUE, 100), SessionEntry(TRUE, FALSE, 0),
                                   SessionEntry(FALSE, FALSE, 200)>>)>>
    /\ deviceEnumerator = <<"IMMDeviceEnumerator">>
    /\ activations = [i \in Interfaces |-> <<>>]
    /\ device = AudioDevice(IMMDevice(1))
    /\ firstRead = None
    /\ IdleSession
    /\ IdleHost
    /\ last = NativeStep

\* a method of `device` was called: res is what it did
Called(op, arg, res, outcome) ==
    /\ \A i \in Interfaces : Len(Activated(activations, res.native, outcome)[i]) <= MaxActivate
    /\ device' = res.w
    /\ activations' = Activated(activations, res.native, outcome)
    /\ last' = Last(op, arg, res, device)
    /\ UNCHANGED <<mmdevices, deviceEnumerator, firstRead, sessionVars, hostVars>>

Callid == Called("id", None, id(device, mmdevices[device._dev[2]]), "ok")

Callstate == Called("state", None, state(device, mmdevices[device._dev[2]]), "ok")

CallSessions(outcome) ==
    Called("Sessions", None,
           Sessions(device, mmdevices[device._dev[2]], outcome,
                    Len(activations["IAudioSessionManager2"]) + 1),
           outcome)

\* AudioUtilities.CreateDevice(dev): the caller wraps the endpoint again
CallCreateDevice ==
    /\ device # AudioDevice(IMMDevice(1))
    /\ device' = AudioDevice(IMMDevice(1))
    /\ activations' = [i \in Interfaces |-> <<>>]
    /\ last' = Last("CreateDevice", None, Result(AudioDevice(IMMDevice(1)), FALSE, None, <<>>), device)
    /\ UNCHANGED <<mmdevices, deviceEnumerator, firstRead, sessionVars, hostVars>>

\* the endpoint is given another id or state behind the wrapper's back
NativeSetId(devId) ==
    /\ mmdevices[1].devId # devId
    /\ mmdevices' = [mmdevices EXCEPT ![1].devId = devId]
    /\ last' = NativeStep
    /\ UNCHANGED <<deviceEnumerator, activations, device, firstRead, sessionVars, hostVars>>

NativeSetState(devState) ==
    /\ mmdevices[1].devState # devState
    /\ mmdevices' = [mmdevices EXCEPT ![1].devState = devState]
    /\ last' = NativeStep
    /\ UNCHANGED <<deviceEnumerator, activations, device, firstRead, sessionVars, hostVars>>

NextSnapshot ==
    \/ Callid
    \/ Callstate
    \/ \E outcome \in ActivateOutcomes : CallSessions(outcome)
    \/ CallCreateDevice
    \/ \E devId \in DeviceIds : NativeSetId(devId)
    \/ \E devState \in DeviceStates : NativeSetState(devState)

SpecSnapshot == InitSnapshot /\ [][NextSnapshot]_vars

\* the native calls of the last operation, as a set of call names
NativeNames == {last.native[k][1] : k \in DOMAIN last.native}

\* the entries of an endpoint's enumerator that become AudioSession objects
ValidEntries(nd) == {i \in DOMAIN nd.sessions : ~nd.sessions[i].null /\ nd.sessions[i].ctl2}

\* C2: on a device whose cached state is not Active, Sessions returns an empty
\* list and makes no native session-manager activation call and no
\* session-enumerator call.
C2_InactiveNoSessions ==
    (last.op = "Sessions" /\ device._state # AudioDeviceState("Active")) =>
        /\ ~last.raised
        /\ last.ret = <<>>
        /\ NativeNames \subseteq {"GetState"}
        /\ device._interfaces = last.pre._interfaces

\* C2 witness: Sessions on a wrapper that cached Unplugged, read while the
\* endpoint itself is Active and has a session to enumerate
C2_Witness ==
    /\ last.op = "Sessions"
    /\ last.pre._state = AudioDeviceState("Unplugged")
    /\ mmdevices[1].devState = "Active"
    /\ mmdevices[1].hasEnumerator
    /\ ValidEntries(mmdevices[1]) # {}
    /\ last.ret = <<>>

\* C8: once id or state has been read, every later read returns the cached
\* value with no native GetId/GetState call, whatever the endpoint has become,
\* no operation of the wrapper changes the cached value, and Sessions goes by
\* the cached state alone.
C8_FetchOnce ==
    /\ (last.op = "id" /\ last.pre._id # None) =>
           last.ret = last.pre._id /\ last.native = <<>>
    /\ (last.op = "state" /\ last.pre._state # None) =>
           last.ret = last.pre._state /\ last.native = <<>>
    /\ (last.op \in {"id", "state", "Sessions"} /\ last.pre._id # None) =>
           device._id = last.pre._id /\ "GetId" \notin NativeNames
    /\ (last.op \in {"id", "state", "Sessions"} /\ last.pre._state # None) =>
           device._state = last.pre._state /\ "GetState" \notin NativeNames
    /\ (last.op = "Sessions" /\ last.pre._state \notin {None, AudioDeviceState("Active")}) =>
           last.ret = <<>> /\ last.native = <<>>
    /\ (last.op = "Sessions" /\ last.pre._state = AudioDeviceState("Active")
          /\ ~last.raised /\ mmdevices[1].hasEnumerator) =>
           /\ Len(last.ret) = Cardinality(ValidEntries(mmdevices[1]))
           /\ "GetSessionEnumerator" \in NativeNames

\* C8 witness: Sessions enumerates on a wrapper that cached Active and an id,
\* after the endpoint became Unplugged and got another id
C8_Witness ==
    /\ last.op = "Sessions"
    /\ last.pre._state = AudioDeviceState("Active")
    /\ mmdevices[1].devState = "Unplugged"
    /\ device._id \notin {None, mmdevices[1].devId}
    /\ ~last.raised
    /\ Len(last.ret) = 1

-----------------------------------------------------------------------------
(* SpecProps: properties read through one wrapper over a property store     *)
(* that has failing entries, is empty or absent, and changes between reads  *)

PropertyNames == {"K1", "K2", "K3"}

PropertyValues == {str(<<"v1">>), str(<<"v2">>)}

\* an entry of the store: its key, its value, and whether GetValue fails on it
StoreEntry(pk, value, fails) == [pk |-> pk, value |-> value, fails |-> fails]

StoreEntries ==
    {StoreEntry(PROPERTYKEY(k), v, f) : k \in PropertyNames, v \in PropertyValues, f \in BOOLEAN}

\* the stores of at most MaxProps entries; a store holds a key once
Stores ==
    {NoStore} \cup
    {Store(es) : es \in {e \in UNION {[1..n -> StoreEntries] : n \in 0..MaxProps} :
                            \A a, b \in DOMAIN e : a # b => e[a].pk # e[b].pk}}

InitProps ==
    /\ \E store \in Stores :
          mmdevices = <<Endpoint(str(<<"dev0">>), "Active", store, TRUE, <<>>)>>
    /\ deviceEnumerator = <<"IMMDeviceEnumerator">>
    /\ activations = [i \in Interfaces |-> <<>>]
    /\ device = AudioDevice(IMMDevice(1))
    /\ firstRead = None
    /\ IdleSession
    /\ IdleHost
    /\ last = NativeStep

\* last.arg records what the first read returned, None when this is the first
Callproperties ==
    LET res == properties(device, mmdevices[device._dev[2]])
    IN  /\ device' = res.w
        /\ firstRead' = IF firstRead = None THEN res.ret ELSE firstRead
        /\ last' = Last("properties", firstRead, res, device)
        /\ UNCHANGED <<mmdevices, deviceEnumerator, activations, sessionVars, hostVars>>

\* the endpoint's property store appears, disappears or changes
NativeSetStore(store) ==
    /\ mmdevices[1].store # store
    /\ mmdevices' = [mmdevices EXCEPT ![1].store = store]
    /\ last' = NativeStep
    /\ UNCHANGED <<deviceEnumerator, activations, device, firstRead, sessionVars, hostVars>>

NextProps ==
    \/ Callproperties
    \/ \E store \in Stores : NativeSetStore(store)

SpecProps == InitProps /\ [][NextProps]_vars

\* the entries of the store the last read went over
ReadEntries == mmdevices[1].store.entries

\* C7: a read of properties over a store with failing entries does not abort:
\* every entry whose value can be fetched is in the mapping under its
\* stringified key with its value, every failing entry is an empty placeholder
\* or omitted, one warning is recorded per failing entry, nothing is raised.
C7_BestEffortRead ==
    (last.op = "properties" /\ last.pre._properties = None /\ mmdevices[1].store.present) =>
        /\ ~last.raised
        /\ \A j \in DOMAIN ReadEntries :
              IF ReadEntries[j].fails
              THEN \/ str(ReadEntries[j].pk) \notin DOMAIN last.ret[2]
                   \/ last.ret[2][str(ReadEntries[j].pk)] = PyDict(EmptyDict)
              ELSE /\ str(ReadEntries[j].pk) \in DOMAIN last.ret[2]
                   /\ last.ret[2][str(ReadEntries[j].pk)] = ReadEntries[j].value
        /\ last.warnings = Cardinality({j \in DOMAIN ReadEntries : ReadEntries[j].fails})

\* C9: whatever the first read of properties found (a store with entries, an
\* empty store, no store), every later read on the wrapper returns the same
\* mapping and makes no native property-store call.
C9_CachedInFull ==
    (last.op = "properties" /\ last.arg # None) =>
        /\ last.ret = last.arg
        /\ last.native = <<>>

-----------------------------------------------------------------------------
(* AudioSession: display name, icon path and the notification callback *)

\* what a method of AudioSession did: as Result, with the native session
\* control as the call left it
SessionResult(ret, raised, w, c, native) ==
    [ret |-> ret, raised |-> raised, w |-> w, native |-> native, warnings |-> 0, ctl |-> c]

\* property DisplayName (lines 233-240)
DisplayName(w, c) == SessionResult(c.displayName, FALSE, w, c, << <<"GetDisplayName">> >>)

\* the same setter without the comparison: sets on every assignment
DisplayNameSetAlways(w, c, value) ==
    SessionResult(None, FALSE, w, [c EXCEPT !.displayName = value],
                  << <<"GetDisplayName">>, <<"SetDisplayName", value>> >>)

\* DisplayName.setter (lines 242-246)
DisplayNameSet(w, c, value) ==
    LET s == c.displayName
    IN  IF s # value
        THEN SessionResult(None, FALSE, w, [c EXCEPT !.displayName = value],
                           << <<"GetDisplayName">>, <<"SetDisplayName", value>> >>)
        ELSE SessionResult(None, FALSE, w, c, << <<"GetDisplayName">> >>)

\* property IconPath (lines 248-255)
IconPath(w, c) == SessionResult(c.iconPath, FALSE, w, c, << <<"GetIconPath">> >>)

\* IconPath.setter (lines 257-261)
IconPathSet(w, c, value) ==
    LET s == c.iconPath
    IN  IF s # value
        THEN SessionResult(None, FALSE, w, [c EXCEPT !.iconPath = value],
                           << <<"GetIconPath">>, <<"SetIconPath", value>> >>)
        ELSE SessionResult(None, FALSE, w, c, << <<"GetIconPath">> >>)

\* `if x:` on a callback object or None
Truthy(x) == x # None

\* seq without the first occurrence of x
RECURSIVE RemoveFirst(_, _)
RemoveFirst(seq, x) ==
    IF seq = <<>> THEN <<>>
    ELSE IF Head(seq) = x THEN Tail(seq)
    ELSE <<Head(seq)>> \o RemoveFirst(Tail(seq), x)

\* the same method without the guard: records and registers every callback
register_notificationAlways(w, c, callback, outcome) ==
    IF outcome = "ok"
    THEN SessionResult(None, FALSE, [w EXCEPT !._callback = callback],
                       [c EXCEPT !.registered = Append(@, callback)],
                       << <<"RegisterAudioSessionNotification", callback>> >>)
    ELSE SessionResult(None, TRUE, [w EXCEPT !._callback = callback], c,
                       << <<"RegisterAudioSessionNotification", callback>> >>)

\* register_notification (lines 278-281); outcome: whether the native
\* registration, if it is made, succeeds
register_notification(w, c, callback, outcome) ==
    IF w._callback = None
    THEN IF outcome = "ok"
         THEN SessionResult(None, FALSE, [w EXCEPT !._callback = callback],
                            [c EXCEPT !.registered = Append(@, callback)],
                            << <<"RegisterAudioSessionNotification", callback>> >>)
         ELSE SessionResult(None, TRUE, [w EXCEPT !._callback = callback], c,
                            << <<"RegisterAudioSessionNotification", callback>> >>)
    ELSE SessionResult(None, FALSE, w, c, <<>>)

\* unregister_notification (lines 283-285); outcome: whether the native
\* unregistration, if it is made, succeeds
unregister_notification(w, c, outcome) ==
    IF Truthy(w._callback)
    THEN IF outcome = "ok"
         THEN SessionResult(None, FALSE, w,
                            [c EXCEPT !.registered = RemoveFirst(@, w._callback)],
                            << <<"UnregisterAudioSessionNotification", w._callback>> >>)
         ELSE SessionResult(None, TRUE, w, c,
                            << <<"UnregisterAudioSessionNotification", w._callback>> >>)
    ELSE SessionResult(None, FALSE, w, c, <<>>)

-----------------------------------------------------------------------------
(* SpecSession: setters and notification calls on one AudioSession wrapper  *)
(* while other clients rename the native session                            *)

Texts == {str(<<"">>), str(<<"a">>), str(<<"b">>)}

Callbacks == {<<"callback", "cb1">>, <<"callback", "cb2">>}

NativeOutcomes == {"ok", "fails"}

InitSession ==
    /\ IdleDevice
    /\ \E displayName \in Texts, iconPath \in Texts :
          ctl = Control(displayName, iconPath, <<>>)
    /\ ctlCalls = <<>>
    /\ session = AudioSession(SessionControl(IMMDevice(1), 1))
    /\ IdlePeer
    /\ IdleHost
    /\ last = NativeStep

deviceVars == <<mmdevices, deviceEnumerator, activations, device, firstRead>>

\* the register/unregister calls among the native calls of one method call
CtlCalls(native, outcome) ==
    LET at == {k \in DOMAIN native :
                  native[k][1] \in {"RegisterAudioSessionNotification",
                                    "UnregisterAudioSessionNotification"}}
    IN  IF at = {} THEN <<>>
        ELSE << <<native[CHOOSE k \in at : TRUE][1], native[CHOOSE k \in at : TRUE][2], outcome>> >>

\* a method of `session` was called: res is what it did
SessionCalled(op, arg, res, outcome) ==
    /\ Len(ctlCalls \o CtlCalls(res.native, outcome)) <= MaxCtlCalls
    /\ session' = res.w
    /\ ctl' = res.ctl
    /\ ctlCalls' = ctlCalls \o CtlCalls(res.native, outcome)
    /\ last' = Last(op, arg, res, [w |-> session, ctl |-> ctl, calls |-> ctlCalls])
    /\ UNCHANGED <<deviceVars, peerVars, hostVars>>

CallDisplayNameSet(value) ==
    SessionCalled("DisplayName.setter", value, DisplayNameSet(session, ctl, value), "ok")

CallIconPathSet(value) ==
    SessionCalled("IconPath.setter", value, IconPathSet(session, ctl, value), "ok")

Callregister_notification(callback, outcome) ==
    SessionCalled("register_notification", callback,
                  register_notification(session, ctl, callback, outcome), outcome)

Callunregister_notification(outcome) ==
    SessionCalled("unregister_notification", None,
                  unregister_notification(session, ctl, outcome), outcome)

\* another client of the native session sets its display name or icon path
NativeSetDisplayName(value) ==
    /\ ctl.displayName # value
    /\ ctl' = [ctl EXCEPT !.displayName = value]
    /\ last' = NativeStep
    /\ UNCHANGED <<deviceVars, ctlCalls, session, peerVars, hostVars>>

NativeSetIconPath(value) ==
    /\ ctl.iconPath # value
    /\ ctl' = [ctl EXCEPT !.iconPath = value]
    /\ last' = NativeStep
    /\ UNCHANGED <<deviceVars, ctlCalls, session, peerVars, hostVars>>

NextSession ==
    \/ \E value \in Texts : CallDisplayNameSet(value)
    \/ \E value \in Texts : CallIconPathSet(value)
    \/ \E callback \in Callbacks, outcome \in NativeOutcomes :
          Callregister_notification(callback, outcome)
    \/ \E outcome \in NativeOutcomes : Callunregister_notification(outcome)
    \/ \E value \in Texts : NativeSetDisplayName(value)
    \/ \E value \in Texts : NativeSetIconPath(value)

SpecSession == InitSession /\ [][NextSession]_vars

\* the native setter calls among the native calls of the last operation
SetterCalls ==
    {k \in DOMAIN last.native : last.native[k][1] \in {"SetDisplayName", "SetIconPath"}}

\* C3: assigning DisplayName or IconPath the value the native session reports
\* makes no native setter call and changes nothing; assigning another value
\* makes exactly one native setter call, with that value, and the getter then
\* returns it.
C3_SetterDedup ==
    /\ (last.op = "DisplayName.setter" /\ last.arg = last.pre.ctl.displayName) =>
           SetterCalls = {} /\ ctl = last.pre.ctl
    /\ (last.op = "DisplayName.setter" /\ last.arg # last.pre.ctl.displayName) =>
           /\ Cardinality(SetterCalls) = 1
           /\ \A k \in SetterCalls : last.native[k] = <<"SetDisplayName", last.arg>>
           /\ DisplayName(session, ctl).ret = last.arg
           /\ ctl.iconPath = last.pre.ctl.iconPath
    /\ (last.op = "IconPath.setter" /\ last.arg = last.pre.ctl.iconPath) =>
           SetterCalls = {} /\ ctl = last.pre.ctl
    /\ (last.op = "IconPath.setter" /\ last.arg # last.pre.ctl.iconPath) =>
           /\ Cardinality(SetterCalls) = 1
           /\ \A k \in SetterCalls : last.native[k] = <<"SetIconPath", last.arg>>
           /\ IconPath(session, ctl).ret = last.arg
           /\ ctl.displayName = last.pre.ctl.displayName

\* C3 witness: DisplayName assigned the value another client has just given
\* the native session, which differs from what this wrapper set before
C3_Witness ==
    /\ last.op = "DisplayName.setter"
    /\ last.arg = str(<<"b">>)
    /\ last.pre.ctl.displayName = str(<<"b">>)
    /\ SetterCalls = {}
    /\ ctl.iconPath = str(<<"a">>)

\* C4: a second register_notification keeps the first callback recorded and
\* registered and makes no native call; unregister_notification on a session
\* on which no callback was ever registered makes no native call and does not
\* fail.
C4_SecondRegisterNoOp ==
    /\ (last.op = "register_notification" /\ last.pre.w._callback # None) =>
           /\ session._callback = last.pre.w._callback
           /\ last.native = <<>>
           /\ ~last.raised
           /\ ctl = last.pre.ctl
    /\ (last.op = "unregister_notification" /\ last.pre.calls = <<>>) =>
           /\ last.native = <<>>
           /\ ~last.raised
           /\ ctl = last.pre.ctl
           /\ session = last.pre.w
    /\ (session._callback = None) <=> (ctlCalls = <<>>)

\* C4 witness: register_notification(cb2) on a session that has cb1 recorded
\* and natively registered
C4_Witness ==
    /\ last.op = "register_notification"
    /\ last.arg = <<"callback", "cb2">>
    /\ last.pre.w._callback = <<"callback", "cb1">>
    /\ ctl.registered = << <<"callback", "cb1">> >>

\* C5: after any sequence of register_notification and unregister_notification
\* calls the session instance has at most one callback natively registered and
\* not yet unregistered.
C5_AtMostOneRegistered == Len(ctl.registered) <= 1

\* C5 witness: register, unregister and register again have been called and
\* no callback is registered
C5_Witness ==
    /\ last.op = "register_notification"
    /\ last.pre.calls =
           << <<"RegisterAudioSessionNotification", <<"callback", "cb1">>, "ok">>,
              <<"UnregisterAudioSessionNotification", <<"callback", "cb1">>, "ok">> >>
    /\ ctl.registered = <<>>

\* C6: unregister_notification is idempotent: once a callback was registered
\* and unregistered, a further unregister_notification makes no native
\* unregister call and leaves the session as the first one left it.
C6_UnregisterIdempotent ==
    (/\ last.op = "unregister_notification"
     /\ Len(last.pre.calls) = 2
     /\ last.pre.calls[1][1] = "RegisterAudioSessionNotification"
     /\ last.pre.calls[1][3] = "ok"
     /\ last.pre.calls[2][1] = "UnregisterAudioSessionNotification"
     /\ last.pre.calls[2][3] = "ok") =>
        /\ last.native = <<>>
        /\ session = last.pre.w
        /\ ctl = last.pre.ctl

-----------------------------------------------------------------------------
(* class AudioUtilities *)

\* the native session behind an AudioSession wrapper
SessionOf(w, devs) == devs[w._ctl[2][2]].sessions[w._ctl[3]]

\* property ProcessId (lines 205-207)
ProcessId(w, devs) == SessionOf(w, devs).pid

\* property State (lines 219-222)
State(w, devs) == SessionOf(w, devs).state

\* DEVICE_STATE.ACTIVE and DEVICE_STATE.MASK_ALL, as the states a mask lets through
DEVICE_STATE_ACTIVE == {"Active"}

DEVICE_STATE_MASK_ALL == DeviceStates

\* the endpoints from index i on that the native enumerator lets through
RECURSIVE EnumFrom(_, _, _, _)
EnumFrom(devs, flow, deviceState, i) ==
    IF i > Len(devs) THEN <<>>
    ELSE (IF (flow = "eAll" \/ devs[i].flow = flow) /\ devs[i].devState \in deviceState
          THEN <<IMMDevice(i)>> ELSE <<>>)
         \o EnumFrom(devs, flow, deviceState, i + 1)

\* deviceEnumerator.EnumAudioEndpoints(flow, deviceState): the collection
EnumAudioEndpoints(devs, flow, deviceState) ==
    <<"IMMDeviceCollection", EnumFrom(devs, flow, deviceState, 1)>>

\* CreateDevice (lines 383-390)
CreateDevice(dev) == IF dev = None THEN None ELSE AudioDevice(dev)

\* CreateDevices (lines 392-407)
CreateDevices(collection) ==
    IF collection = None THEN <<>>
    ELSE LET present == SelectSeq(collection[2], LAMBDA dev : dev # None)
         IN  [i \in 1..Len(present) |-> CreateDevice(present[i])]

\* GetDeviceEnumerator (lines 435-443) returns what comtypes.CoCreateInstance
\* returns: the enumerator, or None when there is none
IMMDeviceEnumerator == <<"IMMDeviceEnumerator">>

\* the native calls of EnumAudioEndpoints followed by CreateDevices
EnumCalls(collection, flow, deviceState) ==
    << <<"EnumAudioEndpoints", flow, deviceState>>, <<"GetCount">> >>
    \o [i \in 1..Len(collection[2]) |-> <<"Item", i - 1>>]

\* the same method without the test of the enumerator
GetDevicesUnchecked(devs, enumerator, flow, deviceState) ==
    LET collection == EnumAudioEndpoints(devs, flow, deviceState)
    IN  Result(CreateDevices(collection), FALSE, None,
               EnumCalls(collection, flow, deviceState))

\* GetDevices (lines 409-422); enumerator is what GetDeviceEnumerator() returned
GetDevices(devs, enumerator, flow, deviceState) ==
    IF enumerator = None THEN Result(<<>>, FALSE, None, <<>>)
    ELSE LET collection == EnumAudioEndpoints(devs, flow, deviceState)
         IN  Result(CreateDevices(collection), FALSE, None,
                    EnumCalls(collection, flow, deviceState))

\* GetAllDevices (lines 424-433)
GetAllDevices(devs, enumerator) ==
    IF enumerator = None THEN Result(<<>>, FALSE, None, <<>>)
    ELSE LET collection == EnumAudioEndpoints(devs, "eAll", DEVICE_STATE_MASK_ALL)
         IN  Result(CreateDevices(collection), FALSE, None,
                    EnumCalls(collection, "eAll", DEVICE_STATE_MASK_ALL))

\* the endpoints the native enumerator may name as the default of a flow
DefaultCandidates(devs, dataFlow) ==
    {i \in DOMAIN devs : /\ dataFlow = "eAll" \/ devs[i].flow = dataFlow
                         /\ devs[i].devState = "Active"}

\* GetDefaultEndpoint (lines 293-301); default is the endpoint the native
\* GetDefaultAudioEndpoint names (0: it finds none and fails)
GetDefaultEndpoint(devs, enumerator, dataFlow, default) ==
    IF enumerator = None THEN Result(None, FALSE, None, <<>>)
    ELSE IF default = 0
    THEN Result(None, TRUE, None, << <<"GetDefaultAudioEndpoint", dataFlow, "eMultimedia">> >>)
    ELSE Result(IMMDevice(default), FALSE, None,
                << <<"GetDefaultAudioEndpoint", dataFlow, "eMultimedia">> >>)

\* the same loop without the test of the session's State
RECURSIVE GetSessionsLoopAll(_, _, _, _, _)
GetSessionsLoopAll(devs, devices, k, sessionState, failAt) ==
    IF k > Len(devices) THEN Result(<<>>, FALSE, None, <<>>)
    ELSE LET deviceSessions ==
                 Sessions(devices[k], devs[devices[k]._dev[2]],
                          IF devices[k]._dev[2] = failAt THEN "ActivateFails" ELSE "ok", 1)
         IN  IF deviceSessions.raised
             THEN Result(None, TRUE, None, deviceSessions.native)
             ELSE LET rest == GetSessionsLoopAll(devs, devices, k + 1, sessionState, failAt)
                  IN  IF rest.raised
                      THEN Result(None, TRUE, None, deviceSessions.native \o rest.native)
                      ELSE Result(deviceSessions.ret \o rest.ret, FALSE, None,
                                  deviceSessions.native \o rest.native)

\* the for loop of GetSessions from device k on; failAt is the endpoint whose
\* Activate fails during this call (0: none)
RECURSIVE GetSessionsLoop(_, _, _, _, _)
GetSessionsLoop(devs, devices, k, sessionState, failAt) ==
    IF k > Len(devices) THEN Result(<<>>, FALSE, None, <<>>)
    ELSE LET deviceSessions ==
                 Sessions(devices[k], devs[devices[k]._dev[2]],
                          IF devices[k]._dev[2] = failAt THEN "ActivateFails" ELSE "ok", 1)
         IN  IF deviceSessions.raised
             THEN Result(None, TRUE, None, deviceSessions.native)
             ELSE LET rest == GetSessionsLoop(devs, devices, k + 1, sessionState, failAt)
                      kept == SelectSeq(deviceSessions.ret,
                                  LAMBDA deviceSession :
                                      sessionState = None
                                      \/ sessionState = State(deviceSession, devs))
                  IN  IF rest.raised
                      THEN Result(None, TRUE, None, deviceSessions.native \o rest.native)
                      ELSE Result(kept \o rest.ret, FALSE, None,
                                  deviceSessions.native \o rest.native)

\* GetSessions (lines 337-357)
GetSessions(devs, enumerator, dataFlow, sessionState, failAt) ==
    LET devices == GetDevices(devs, enumerator, dataFlow, DEVICE_STATE_ACTIVE)
        loop == GetSessionsLoop(devs, devices.ret, 1, sessionState, failAt)
    IN  [loop EXCEPT !.native = devices.native \o @]

\* the for loop of GetProcessSession from session k on
RECURSIVE GetProcessSessionScan(_, _, _, _)
GetProcessSessionScan(devs, sessions, k, pid) ==
    IF k > Len(sessions) THEN Result(None, FALSE, None, <<>>)
    ELSE IF ProcessId(sessions[k], devs) = pid
    THEN Result(sessions[k], FALSE, None, << <<"GetProcessId">> >>)
    ELSE LET rest == GetProcessSessionScan(devs, sessions, k + 1, pid)
         IN  [rest EXCEPT !.native = << <<"GetProcessId">> >> \o @]

\* the same scan run from the last session down to the first
RECURSIVE GetProcessSessionScanLast(_, _, _, _)
GetProcessSessionScanLast(devs, sessions, k, pid) ==
    IF k < 1 THEN Result(None, FALSE, None, <<>>)
    ELSE IF ProcessId(sessions[k], devs) = pid
    THEN Result(sessions[k], FALSE, None, << <<"GetProcessId">> >>)
    ELSE LET rest == GetProcessSessionScanLast(devs, sessions, k - 1, pid)
         IN  [rest EXCEPT !.native = << <<"GetProcessId">> >> \o @]

\* the same method returning the last session of the process
GetProcessSessionLast(devs, enumerator, pid, failAt) ==
    LET all == GetSessions(devs, enumerator, "eAll", None, failAt)
    IN  IF all.raised THEN all
        ELSE LET scan == GetProcessSessionScanLast(devs, all.ret, Len(all.ret), pid)
             IN  [scan EXCEPT !.native = all.native \o @]

\* GetProcessSession (lines 371-381); pid is the id argument
GetProcessSession(devs, enumerator, pid, failAt) ==
    LET all == GetSessions(devs, enumerator, "eAll", None, failAt)
    IN  IF all.raised THEN all
        ELSE LET scan == GetProcessSessionScan(devs, all.ret, 1, pid)
             IN  [scan EXCEPT !.native = all.native \o @]

-----------------------------------------------------------------------------
(* SpecProcess: GetProcessSession over endpoints and sessions that arrive   *)
(* in native enumeration order                                              *)

InitProcess ==
    /\ mmdevices = <<>>
    /\ deviceEnumerator = <<"IMMDeviceEnumerator">>
    /\ activations = [i \in Interfaces |-> <<>>]
    /\ device = AudioDevice(IMMDevice(1))
    /\ firstRead = None
    /\ IdleSession
    /\ IdleHost
    /\ last = NativeStep

\* the session entries over all endpoints
RECURSIVE TotalSessions(_, _)
TotalSessions(devs, i) ==
    IF i > Len(devs) THEN 0 ELSE Len(devs[i].sessions) + TotalSessions(devs, i + 1)

\* an endpoint appears at the end of the native enumeration
NativeAddDevice(devState, hasEnumerator) ==
    /\ Len(mmdevices) < MaxDevices
    /\ mmdevices' = Append(mmdevices,
                           Endpoint(str(<<"dev0">>), devState, NoStore, hasEnumerator, <<>>))
    /\ last' = NativeStep
    /\ UNCHANGED <<deviceEnumerator, activations, device, firstRead, sessionVars, hostVars>>

\* an entry appears at the end of endpoint d's session enumeration
NativeAddSession(d, entry) ==
    /\ TotalSessions(mmdevices, 1) < MaxSessions
    /\ mmdevices' = [mmdevices EXCEPT ![d].sessions = Append(@, entry)]
    /\ last' = NativeStep
    /\ UNCHANGED <<deviceEnumerator, activations, device, firstRead, sessionVars, hostVars>>

\* the entries an enumerator may hold: null, not narrowing, or a session of a process
ProcessEntries ==
    {SessionEntry(TRUE, FALSE, 0), SessionEntry(FALSE, FALSE, 0)}
    \cup {SessionEntry(FALSE, TRUE, pid) : pid \in Pids}

CallGetProcessSession(pid, failAt) ==
    LET res == GetProcessSession(mmdevices, deviceEnumerator, pid, failAt)
    IN  /\ last' = Last("GetProcessSession", [id |-> pid, failAt |-> failAt], res, None)
        /\ UNCHANGED <<deviceVars, sessionVars, hostVars>>

NextProcess ==
    \/ \E devState \in {"Active", "Unplugged"}, hasEnumerator \in BOOLEAN :
          NativeAddDevice(devState, hasEnumerator)
    \/ \E d \in DOMAIN mmdevices, entry \in ProcessEntries : NativeAddSession(d, entry)
    \/ \E pid \in Pids, failAt \in 0..Len(mmdevices) : CallGetProcessSession(pid, failAt)

SpecProcess == InitProcess /\ [][NextProcess]_vars

\* the positions <<d, i>> of the sessions of process pid that GetSessions
\* yields: entry i of an Active endpoint d with a session enumerator, not null
\* and narrowing to IAudioSessionControl2
Matches(pid) ==
    {<<d, i>> \in (DOMAIN mmdevices) \X (1..MaxSessions + 1) :
        /\ mmdevices[d].devState = "Active"
        /\ mmdevices[d].hasEnumerator
        /\ i \in ValidEntries(mmdevices[d])
        /\ mmdevices[d].sessions[i].pid = pid}

\* position a is not after position b in GetSessions order
NotAfter(a, b) == a[1] < b[1] \/ (a[1] = b[1] /\ a[2] <= b[2])

\* C10: GetProcessSession(pid) returns the first session in GetSessions order
\* (Active endpoints in enumeration order, each one's sessions in order) whose
\* process id is pid, never a later one, and None when there is none; it
\* returns whenever no activation of a session manager fails.
C10_FirstMatch ==
    last.op = "GetProcessSession" =>
        /\ last.raised <=>
               /\ last.arg.failAt \in DOMAIN mmdevices
               /\ mmdevices[last.arg.failAt].devState = "Active"
        /\ (~last.raised /\ Matches(last.arg.id) = {}) => last.ret = None
        /\ (~last.raised /\ Matches(last.arg.id) # {}) =>
               \E a \in Matches(last.arg.id) :
                   /\ last.ret = AudioSession(SessionControl(IMMDevice(a[1]), a[2]))
                   /\ \A b \in Matches(last.arg.id) : NotAfter(a, b)

\* C10 witness: two sessions of the process on the second endpoint, after an
\* endpoint that is not Active, and the first of the two is returned
C10_Witness ==
    /\ last.op = "GetProcessSession"
    /\ ~last.raised
    /\ Matches(last.arg.id) = {<<2, 1>>, <<2, 2>>}
    /\ mmdevices[1].devState = "Unplugged"
    /\ last.ret = AudioSession(SessionControl(IMMDevice(2), 1))

-----------------------------------------------------------------------------
(* AudioSession.Process *)

\* psutil.Process(pid) for a live process: its identity is the pid and which
\* process of that pid it is
ProcessHandle(pid, incarnation) == <<"psutil.Process", pid, incarnation>>

\* the same property without the test of the stored handle: looks the process
\* up on every read
ProcessRefresh(w, devs, os) ==
    LET pid == ProcessId(w, devs)
    IN  IF pid # 0
        THEN IF os[pid].alive
             THEN SessionResult(ProcessHandle(pid, os[pid].started), FALSE,
                                [w EXCEPT !._process = ProcessHandle(pid, os[pid].started)],
                                None,
                                << <<"GetProcessId">>, <<"GetProcessId">>, <<"psutil.Process", pid>> >>)
             ELSE SessionResult(None, FALSE, w, None,
                                << <<"GetProcessId">>, <<"GetProcessId">>, <<"psutil.Process", pid>> >>)
        ELSE SessionResult(w._process, FALSE, w, None, << <<"GetProcessId">> >>)

\* property Process (lines 195-203); os is the process table
Process(w, devs, os) ==
    LET pid == ProcessId(w, devs)
    IN  IF w._process = None
        THEN IF pid # 0
             THEN IF os[pid].alive
                  THEN SessionResult(ProcessHandle(pid, os[pid].started), FALSE,
                                     [w EXCEPT !._process = ProcessHandle(pid, os[pid].started)],
                                     None,
                                     << <<"GetProcessId">>, <<"GetProcessId">>,
                                        <<"psutil.Process", pid>> >>)
                  ELSE SessionResult(None, FALSE, w, None,
                                     << <<"GetProcessId">>, <<"GetProcessId">>,
                                        <<"psutil.Process", pid>> >>)
             ELSE SessionResult(w._process, FALSE, w, None, << <<"GetProcessId">> >>)
        ELSE SessionResult(w._process, FALSE, w, None, <<>>)

-----------------------------------------------------------------------------
(* SpecLookup: Process read through one AudioSession wrapper while processes *)
(* exit and start                                                            *)

InitLookup ==
    /\ \E pid \in Pids \cup {0} :
          mmdevices = <<Endpoint(str(<<"dev0">>), "Active", NoStore, TRUE,
                                 <<SessionEntry(FALSE, TRUE, pid)>>)>>
    /\ deviceEnumerator = <<"IMMDeviceEnumerator">>
    /\ activations = [i \in Interfaces |-> <<>>]
    /\ device = AudioDevice(IMMDevice(1))
    /\ firstRead = None
    /\ IdleSession
    /\ processes = [p \in Pids |-> [alive |-> FALSE, started |-> 0]]
    /\ threads = <<>>
    /\ last = NativeStep

CallProcess ==
    LET res == Process(session, mmdevices, processes)
    IN  /\ session' = res.w
        /\ last' = Last("Process", None, res, session)
        /\ UNCHANGED <<deviceVars, ctl, ctlCalls, peerVars, hostVars>>

\* the operating system starts a process under a free pid
OsStart(pid) ==
    /\ ~processes[pid].alive
    /\ processes[pid].started < MaxIncarnations
    /\ processes' = [processes EXCEPT ![pid] = [alive |-> TRUE, started |-> @.started + 1]]
    /\ last' = NativeStep
    /\ UNCHANGED <<deviceVars, sessionVars, threads>>

\* a process exits
OsExit(pid) ==
    /\ processes[pid].alive
    /\ processes' = [processes EXCEPT ![pid].alive = FALSE]
    /\ last' = NativeStep
    /\ UNCHANGED <<deviceVars, sessionVars, threads>>

NextLookup ==
    \/ CallProcess
    \/ \E pid \in Pids : OsStart(pid)
    \/ \E pid \in Pids : OsExit(pid)

SpecLookup == InitLookup /\ [][NextLookup]_vars

\* the process lookups among the native calls of the last operation
Lookups == {k \in DOMAIN last.native : last.native[k][1] = "psutil.Process"}

\* C11: a Process read never raises; with no handle stored it returns None
\* without a process lookup when the session's pid is 0, returns None and
\* stores nothing when the pid is not 0 and no such process lives, and returns
\* and stores the live process's handle otherwise; with a handle stored it
\* returns that handle without any lookup, whatever became of the process.
C11_ProcessLookup ==
    last.op = "Process" =>
        LET pid == ProcessId(session, mmdevices)
        IN  /\ ~last.raised
            /\ (last.pre._process = None /\ pid = 0) =>
                   (last.ret = None /\ Lookups = {} /\ session = last.pre)
            /\ (last.pre._process = None /\ pid # 0) =>
                   /\ Cardinality(Lookups) = 1
                   /\ ~processes[pid].alive => (last.ret = None /\ session = last.pre)
                   /\ processes[pid].alive =>
                          /\ last.ret = ProcessHandle(pid, processes[pid].started)
                          /\ session = [last.pre EXCEPT !._process = last.ret]
            /\ last.pre._process # None =>
                   (last.ret = last.pre._process /\ last.native = <<>> /\ session = last.pre)

\* C11 witness: a read returns the stored handle of a process that has exited
\* and whose pid was given to another process since
C11_Witness ==
    /\ last.op = "Process"
    /\ last.pre._process # None
    /\ last.ret = ProcessHandle(ProcessId(session, mmdevices), 1)
    /\ processes[ProcessId(session, mmdevices)].started = 2

-----------------------------------------------------------------------------
(* SpecEnumerator: GetDefaultEndpoint, GetDevices and GetAllDevices while    *)
(* endpoints arrive and the device enumerator comes and goes                 *)

Flows == {"eRender", "eCapture"}

InitEnumerator ==
    /\ mmdevices = <<>>
    /\ deviceEnumerator \in {IMMDeviceEnumerator, None}
    /\ activations = [i \in Interfaces |-> <<>>]
    /\ device = AudioDevice(IMMDevice(1))
    /\ firstRead = None
    /\ IdleSession
    /\ IdleHost
    /\ last = NativeStep

\* an endpoint of a flow appears at the end of the native enumeration
NativeAddEndpoint(devState, flow) ==
    /\ Len(mmdevices) < MaxDevices
    /\ mmdevices' = Append(mmdevices,
                           [Endpoint(str(<<"dev0">>), devState, NoStore, TRUE, <<>>)
                                EXCEPT !.flow = flow])
    /\ last' = NativeStep
    /\ UNCHANGED <<deviceEnumerator, activations, device, firstRead, sessionVars, hostVars>>

\* GetDeviceEnumerator() starts or stops yielding an enumerator
NativeSetEnumerator(enumerator) ==
    /\ deviceEnumerator # enumerator
    /\ deviceEnumerator' = enumerator
    /\ last' = NativeStep
    /\ UNCHANGED <<mmdevices, activations, device, firstRead, sessionVars, hostVars>>

\* a static method of AudioUtilities was called: res is what it did
UtilityCalled(op, arg, res) ==
    /\ last' = Last(op, arg, res, deviceEnumerator)
    /\ UNCHANGED <<deviceVars, sessionVars, hostVars>>

CallGetDefaultEndpoint(dataFlow, default) ==
    /\ default \in DefaultCandidates(mmdevices, dataFlow)
          \/ (default = 0 /\ DefaultCandidates(mmdevices, dataFlow) = {})
    /\ UtilityCalled("GetDefaultEndpoint", dataFlow,
                     GetDefaultEndpoint(mmdevices, deviceEnumerator, dataFlow, default))

CallGetDevices(flow, deviceState) ==
    UtilityCalled("GetDevices", <<flow, deviceState>>,
                  GetDevices(mmdevices, deviceEnumerator, flow, deviceState))

CallGetAllDevices ==
    UtilityCalled("GetAllDevices", None, GetAllDevices(mmdevices, deviceEnumerator))

NextEnumerator ==
    \/ \E devState \in {"Active", "Unplugged"}, flow \in Flows : NativeAddEndpoint(devState, flow)
    \/ \E enumerator \in {IMMDeviceEnumerator, None} : NativeSetEnumerator(enumerator)
    \/ \E dataFlow \in Flows \cup {"eAll"}, default \in 0..MaxDevices + 1 :
          CallGetDefaultEndpoint(dataFlow, default)
    \/ \E flow \in Flows \cup {"eAll"},
          deviceState \in {DEVICE_STATE_ACTIVE, DEVICE_STATE_MASK_ALL} :
          CallGetDevices(flow, deviceState)
    \/ CallGetAllDevices

SpecEnumerator == InitEnumerator /\ [][NextEnumerator]_vars

-----------------------------------------------------------------------------
(* SpecSessions: GetSessions over endpoints of both flows and sessions in    *)
(* several states                                                            *)

AudioSessionState(s) == <<"AudioSessionState", s>>

\* the entries an enumerator may hold: a session in one of two states
StatefulEntries ==
    {[SessionEntry(FALSE, TRUE, 100) EXCEPT !.state = AudioSessionState(s)] :
        s \in {"Active", "Inactive"}}

CallGetSessions(dataFlow, sessionState, failAt) ==
    UtilityCalled("GetSessions",
                  [dataFlow |-> dataFlow, sessionState |-> sessionState, failAt |-> failAt],
                  GetSessions(mmdevices, deviceEnumerator, dataFlow, sessionState, failAt))

NextSessions ==
    \/ \E devState \in {"Active", "Unplugged"}, flow \in Flows : NativeAddEndpoint(devState, flow)
    \/ \E d \in DOMAIN mmdevices, entry \in StatefulEntries : NativeAddSession(d, entry)
    \/ \E dataFlow \in Flows \cup {"eAll"},
          sessionState \in {None} \cup {AudioSessionState(s) : s \in {"Active", "Inactive"}},
          failAt \in {0, Len(mmdevices)} :
          CallGetSessions(dataFlow, sessionState, failAt)

SpecSessions == InitProcess /\ [][NextSessions]_vars

\* the endpoints GetSessions(dataFlow, ...) is to visit: Active, of the flow
Visited(dataFlow) ==
    {d \in DOMAIN mmdevices :
        /\ mmdevices[d].devState = "Active"
        /\ dataFlow = "eAll" \/ mmdevices[d].flow = dataFlow}

\* the positions <<d, i>> of the sessions GetSessions(dataFlow, sessionState)
\* is to return
Selected(dataFlow, sessionState) ==
    {<<d, i>> \in (DOMAIN mmdevices) \X (1..MaxSessions + 1) :
        /\ d \in Visited(dataFlow)
        /\ mmdevices[d].hasEnumerator
        /\ i \in ValidEntries(mmdevices[d])
        /\ sessionState = None \/ mmdevices[d].sessions[i].state = sessionState}

\* the position of the native session behind a wrapper
PositionOf(w) == <<w._ctl[2][2], w._ctl[3]>>

\* C13: GetSessions(dataFlow, sessionState) asks the enumerator for the Active
\* endpoints of dataFlow only, and returns, each once, in endpoint order and
\* within an endpoint in session order, exactly the sessions of those endpoints
\* whose State equals sessionState (all of them when sessionState is None); an
\* endpoint without sessions adds nothing, and the call raises only when the
\* session-manager activation of a visited endpoint fails.
C13_GetSessions ==
    last.op = "GetSessions" =>
        /\ last.native[1] = <<"EnumAudioEndpoints", last.arg.dataFlow, DEVICE_STATE_ACTIVE>>
        /\ last.raised <=> last.arg.failAt \in Visited(last.arg.dataFlow)
        /\ ~last.raised =>
               LET sel == Selected(last.arg.dataFlow, last.arg.sessionState)
               IN  /\ Len(last.ret) = Cardinality(sel)
                   /\ \A k \in DOMAIN last.ret :
                          /\ PositionOf(last.ret[k]) \in sel
                          /\ last.ret[k] = AudioSession(last.ret[k]._ctl)
                   /\ \A k \in DOMAIN last.ret : \A j \in DOMAIN last.ret :
                          k < j => /\ NotAfter(PositionOf(last.ret[k]), PositionOf(last.ret[j]))
                                   /\ PositionOf(last.ret[k]) # PositionOf(last.ret[j])

\* C13 witness: an Active render endpoint without sessions, an Active capture
\* endpoint with an Inactive and an Active session; the capture sessions in
\* state Active are asked for and the second entry alone is returned
C13_Witness ==
    /\ last.op = "GetSessions"
    /\ last.arg.dataFlow = "eCapture"
    /\ last.arg.sessionState = AudioSessionState("Active")
    /\ ~last.raised
    /\ Len(mmdevices) = 2
    /\ mmdevices[1].devState = "Active" /\ mmdevices[1].sessions = <<>>
    /\ Len(mmdevices[2].sessions) = 2
    /\ Len(last.ret) = 1
    /\ PositionOf(last.ret[1]) = <<2, 2>>

-----------------------------------------------------------------------------
(* AudioSession.QueryInterface *)

\* what the session control's QueryInterface returns: the control w wraps,
\* narrowed to interface by the serial-th call
SessionHandle(audio_session_control2, interface, serial) ==
    <<"handle", interface, audio_session_control2, serial>>

\* the same method without the membership test: narrows on every call
QueryInterfaceNoCache(w, interface, outcome, serial) ==
    LET interface_name == str(iid(interface))
    IN  IF outcome = "fails"
        THEN SessionResult(None, TRUE, w, None, << <<"QueryInterface", interface>> >>)
        ELSE SessionResult(SessionHandle(w._ctl, interface, serial), FALSE,
                           [w EXCEPT !._interfaces =
                                DictSet(@, interface_name,
                                        SessionHandle(w._ctl, interface, serial))],
                           None, << <<"QueryInterface", interface>> >>)

\* QueryInterface (lines 263-269); outcome: what the native QueryInterface of
\* the session control does if it is called
QueryInterface(w, interface, outcome, serial) ==
    LET interface_name == str(iid(interface))
    IN  IF interface_name \notin DOMAIN w._interfaces
        THEN IF outcome = "fails"
             THEN SessionResult(None, TRUE, w, None, << <<"QueryInterface", interface>> >>)
             ELSE SessionResult(SessionHandle(w._ctl, interface, serial), FALSE,
                                [w EXCEPT !._interfaces =
                                     DictSet(@, interface_name,
                                             SessionHandle(w._ctl, interface, serial))],
                                None, << <<"QueryInterface", interface>> >>)
        ELSE SessionResult(w._interfaces[interface_name], FALSE, w, None, <<>>)

\* property SimpleAudioVolume (lines 271-273)
SimpleAudioVolume(w, outcome, serial) == QueryInterface(w, "ISimpleAudioVolume", outcome, serial)

\* channelAudioVolume (lines 275-276)
channelAudioVolume(w, outcome, serial) == QueryInterface(w, "IChannelAudioVolume", outcome, serial)

-----------------------------------------------------------------------------
(* SpecNarrow: the capability caches of two AudioSession wrappers and one    *)
(* AudioDevice wrapper                                                       *)

Wrapper(who) == IF who = "session" THEN session ELSE peer

\* a narrowing method of a session wrapper was called: res is what it did
Narrowed(who, op, interface, res, outcome) ==
    /\ Len(narrowings[who][interface]) + Len(res.native) <= MaxNarrow
    /\ narrowings' = [narrowings EXCEPT ![who][interface] =
                          IF res.native = <<>> THEN @ ELSE Append(@, outcome)]
    /\ IF who = "session"
       THEN session' = res.w /\ UNCHANGED peer
       ELSE peer' = res.w /\ UNCHANGED session
    /\ last' = Last(op, [who |-> who, interface |-> interface], res, Wrapper(who))
    /\ UNCHANGED <<deviceVars, ctl, ctlCalls, hostVars>>

CallQueryInterface(interface, outcome) ==
    Narrowed("session", "QueryInterface", interface,
             QueryInterface(session, interface, outcome,
                            Len(narrowings["session"][interface]) + 1),
             outcome)

CallSimpleAudioVolume(who, outcome) ==
    Narrowed(who, "SimpleAudioVolume", "ISimpleAudioVolume",
             SimpleAudioVolume(Wrapper(who), outcome,
                               Len(narrowings[who]["ISimpleAudioVolume"]) + 1),
             outcome)

CallchannelAudioVolume(outcome) ==
    Narrowed("session", "channelAudioVolume", "IChannelAudioVolume",
             channelAudioVolume(session, outcome,
                                Len(narrowings["session"]["IChannelAudioVolume"]) + 1),
             outcome)

NextNarrow ==
    \/ \E interface \in SessionInterfaces, outcome \in NativeOutcomes :
          CallQueryInterface(interface, outcome)
    \/ \E who \in {"session", "peer"}, outcome \in NativeOutcomes :
          CallSimpleAudioVolume(who, outcome)
    \/ \E outcome \in NativeOutcomes : CallchannelAudioVolume(outcome)
    \/ \E interface \in {"IAudioEndpointVolume", "IUnknownBase"} :
          CallActivateInterface(interface, "ok")

SpecNarrow == InitActivate /\ [][NextNarrow]_vars

\* C14: a descriptor whose type identifier is None yields None from
\* AudioDevice.ActivateInterface and from AudioSession.QueryInterface alike,
\* without raising, without a native Activate or QueryInterface call and
\* without an entry added to the wrapper's cache.
C14_NullIdentifier ==
    /\ (last.op = "ActivateInterface" /\ iid(last.arg) = None) =>
           /\ last.ret = None /\ ~last.raised /\ last.native = <<>>
           /\ device = last.pre
    /\ (last.op = "QueryInterface" /\ iid(last.arg.interface) = None) =>
           /\ last.ret = None /\ ~last.raised /\ last.native = <<>>
           /\ session = last.pre

\* a read of a session capability
SessionRead == last.op \in {"QueryInterface", "SimpleAudioVolume", "channelAudioVolume"}

\* a read of a session capability whose type identifier is already stored
NarrowHit ==
    /\ SessionRead
    /\ str(iid(last.arg.interface)) \in DOMAIN last.pre._interfaces

\* the handles a wrapper holds and returns are narrowings of its own control
OwnHandles ==
    /\ \A who \in {"session", "peer"} : \A name \in DOMAIN Wrapper(who)._interfaces :
           /\ Len(Wrapper(who)._interfaces[name]) = 4
           /\ Wrapper(who)._interfaces[name][3] = Wrapper(who)._ctl
    /\ \A name \in DOMAIN device._interfaces : Len(device._interfaces[name]) = 3
    /\ (SessionRead /\ ~last.raised) =>
           /\ Len(last.ret) = 4
           /\ last.ret[3] = Wrapper(last.arg.who)._ctl
    /\ (last.op = "ActivateInterface" /\ last.ret # None) => Len(last.ret) = 3

\* C16 as stated: SimpleAudioVolume and channelAudioVolume narrow the
\* session's own control and never call Activate, at most one native
\* QueryInterface call is made per capability type per session wrapper over any
\* sequence of reads, and no handle cached by one wrapper is returned by
\* another session or device wrapper.
C16_AtMostOneNarrowing ==
    /\ SessionRead => NativeNames \subseteq {"QueryInterface"}
    /\ \A who \in {"session", "peer"} : \A i \in SessionInterfaces :
           Len(narrowings[who][i]) <= 1
    /\ OwnHandles

\* C16 amended: SimpleAudioVolume and channelAudioVolume narrow the session's
\* own control and never call Activate; a native QueryInterface call is made
\* only while the type identifier is not stored, so at most one narrowing per
\* capability type per session wrapper succeeds and it is the last one made
\* (failed ones before it store nothing and may repeat); a read of a stored
\* type returns the stored handle without a native call; no handle cached by
\* one wrapper is returned by another session or device wrapper.
C16_AtMostOneStoredNarrowing ==
    /\ SessionRead => NativeNames \subseteq {"QueryInterface"}
    /\ \A who \in {"session", "peer"} : \A i \in SessionInterfaces :
           /\ \A k \in 1..(Len(narrowings[who][i]) - 1) : narrowings[who][i][k] # "ok"
           /\ str(iid(i)) \in DOMAIN Wrapper(who)._interfaces <=>
                  (narrowings[who][i] # <<>>
                   /\ narrowings[who][i][Len(narrowings[who][i])] = "ok")
    /\ NarrowHit => /\ last.native = <<>>
                     /\ ~last.raised
                     /\ last.ret = last.pre._interfaces[str(iid(last.arg.interface))]
                     /\ Wrapper(last.arg.who) = last.pre
    /\ OwnHandles

\* C16 witness: the second wrapper reads SimpleAudioVolume from its cache, its
\* first narrowing having failed and its second one stored, while the first
\* wrapper and the device wrapper hold handles of their own
C16_Witness ==
    /\ NarrowHit
    /\ last.op = "SimpleAudioVolume"
    /\ last.arg.who = "peer"
    /\ narrowings["peer"]["ISimpleAudioVolume"] = <<"fails", "ok">>
    /\ last.ret = SessionHandle(peer._ctl, "ISimpleAudioVolume", 2)
    /\ str(iid("ISimpleAudioVolume")) \in DOMAIN session._interfaces
    /\ device._interfaces # EmptyDict

-----------------------------------------------------------------------------
(* AudioDevice.EndpointVolume, IsMuted, Mute, UnMute *)

\* what a method that may change the endpoint did: nd is the endpoint afterwards
DeviceResult(ret, raised, w, nd, native) ==
    [ret |-> ret, raised |-> raised, w |-> w, native |-> native, warnings |-> 0, nd |-> nd]

\* property EndpointVolume (lines 126-129)
EndpointVolume(w, outcome, serial) ==
    ActivateInterface(w, "IAudioEndpointVolume", outcome, serial)

\* property IsMuted (lines 131-134)
IsMuted(w, nd, outcome, serial) ==
    LET ev == EndpointVolume(w, outcome, serial)
    IN  IF ev.raised THEN DeviceResult(None, TRUE, ev.w, nd, ev.native)
        ELSE DeviceResult(nd.mute = 1, FALSE, ev.w, nd, ev.native \o << <<"GetMute">> >>)

\* the same method setting the flag to 0
MuteClear(w, nd, outcome, serial) ==
    LET ev == EndpointVolume(w, outcome, serial)
    IN  IF ev.raised THEN DeviceResult(None, TRUE, ev.w, nd, ev.native)
        ELSE DeviceResult(None, FALSE, ev.w, [nd EXCEPT !.mute = 0],
                          ev.native \o << <<"SetMute", 0>> >>)

\* Mute (lines 136-138)
Mute(w, nd, outcome, serial) ==
    LET ev == EndpointVolume(w, outcome, serial)
    IN  IF ev.raised THEN DeviceResult(None, TRUE, ev.w, nd, ev.native)
        ELSE DeviceResult(None, FALSE, ev.w, [nd EXCEPT !.mute = 1],
                          ev.native \o << <<"SetMute", 1>> >>)

\* UnMute (lines 140-142)
UnMute(w, nd, outcome, serial) ==
    LET ev == EndpointVolume(w, outcome, serial)
    IN  IF ev.raised THEN DeviceResult(None, TRUE, ev.w, nd, ev.native)
        ELSE DeviceResult(None, FALSE, ev.w, [nd EXCEPT !.mute = 0],
                          ev.native \o << <<"SetMute", 0>> >>)

-----------------------------------------------------------------------------
(* SpecMute: Mute, UnMute and IsMuted on one AudioDevice wrapper while other *)
(* clients change the endpoint's mute flag                                   *)

InitMute ==
    /\ \E m \in {0, 1} : mmdevices = <<[IdleEndpoint EXCEPT !.mute = m]>>
    /\ deviceEnumerator = <<"IMMDeviceEnumerator">>
    /\ activations = [i \in Interfaces |-> <<>>]
    /\ device = AudioDevice(IMMDevice(1))
    /\ firstRead = None
    /\ IdleSession
    /\ IdleHost
    /\ last = NativeStep

\* a mute method of `device` was called: res is what it did; the record of
\* the call keeps what the operation before it was
MuteCalled(op, res, outcome) ==
    /\ Len(Activated(activations, res.native, outcome)["IAudioEndpointVolume"]) <= MaxActivate
    /\ device' = res.w
    /\ mmdevices' = [mmdevices EXCEPT ![1] = res.nd]
    /\ activations' = Activated(activations, res.native, outcome)
    /\ last' = Last(op, None, res,
                    [w |-> device, prev |-> last.op, prevRaised |-> last.raised])
    /\ UNCHANGED <<deviceEnumerator, firstRead, sessionVars, hostVars>>

CallIsMuted(outcome) ==
    MuteCalled("IsMuted",
               IsMuted(device, mmdevices[1], outcome,
                       Len(activations["IAudioEndpointVolume"]) + 1),
               outcome)

CallMute(outcome) ==
    MuteCalled("Mute",
               Mute(device, mmdevices[1], outcome,
                    Len(activations["IAudioEndpointVolume"]) + 1),
               outcome)

CallUnMute(outcome) ==
    MuteCalled("UnMute",
               UnMute(device, mmdevices[1], outcome,
                      Len(activations["IAudioEndpointVolume"]) + 1),
               outcome)

\* another client sets the endpoint's mute flag
NativeSetMute(m) ==
    /\ mmdevices[1].mute # m
    /\ mmdevices' = [mmdevices EXCEPT ![1].mute = m]
    /\ last' = NativeStep
    /\ UNCHANGED <<deviceEnumerator, activations, device, firstRead, sessionVars, hostVars>>

NextMute ==
    \/ \E outcome \in ActivateOutcomes : CallIsMuted(outcome)
    \/ \E outcome \in ActivateOutcomes : CallMute(outcome)
    \/ \E outcome \in ActivateOutcomes : CallUnMute(outcome)
    \/ \E m \in {0, 1} : NativeSetMute(m)

SpecMute == InitMute /\ [][NextMute]_vars

MuteOps == {"IsMuted", "Mute", "UnMute"}

\* an IsMuted read that directly follows a Mute or UnMute that returned reads
\* the flag that call set
ReadsBack ==
    (last.op = "IsMuted" /\ ~last.raised /\ ~last.pre.prevRaised) =>
        /\ last.pre.prev = "Mute" => last.ret = TRUE
        /\ last.pre.prev = "UnMute" => last.ret = FALSE

\* a call whose activation fails raises and touches no mute flag, and no other
\* call raises
FailureReachesCaller ==
    last.op \in MuteOps =>
        /\ last.raised <=>
               /\ "Activate" \in NativeNames
               /\ activations["IAudioEndpointVolume"]
                      [Len(activations["IAudioEndpointVolume"])] # "ok"
        /\ last.raised => NativeNames \cap {"SetMute", "GetMute"} = {}

\* C15 as stated: after Mute() the next IsMuted read returns true and after
\* UnMute() false; any sequence of Mute, UnMute and IsMuted calls performs
\* exactly one native activation of the endpoint-volume capability; when the
\* activation fails the failure reaches the caller and no native SetMute or
\* GetMute call is made.
C15_ExactlyOneActivation ==
    /\ ReadsBack
    /\ last.op \in MuteOps => Len(activations["IAudioEndpointVolume"]) = 1
    /\ FailureReachesCaller

\* C15 amended: the same, except that a sequence of calls performs one native
\* activation per call made while the capability is not stored: at least one,
\* at most one that succeeds, which is the last, each failed one before it
\* raising from its call; calls after the capability is stored activate
\* nothing.
C15_OneStoredActivation ==
    /\ ReadsBack
    /\ last.op \in MuteOps =>
           /\ Len(activations["IAudioEndpointVolume"]) >= 1
           /\ \A k \in 1..(Len(activations["IAudioEndpointVolume"]) - 1) :
                  activations["IAudioEndpointVolume"][k] # "ok"
           /\ "Activate" \in NativeNames <=>
                  str(iid("IAudioEndpointVolume")) \notin DOMAIN last.pre.w._interfaces
           /\ ~last.raised => str(iid("IAudioEndpointVolume")) \in DOMAIN device._interfaces
    /\ FailureReachesCaller

\* C15 witness: IsMuted returns true right after a Mute that found the flag
\* clear, on a wrapper whose first activation failed
C15_Witness ==
    /\ last.op = "IsMuted"
    /\ last.pre.prev = "Mute"
    /\ ~last.pre.prevRaised
    /\ last.ret = TRUE
    /\ activations["IAudioEndpointVolume"] = <<"ActivateFails", "ok">>

-----------------------------------------------------------------------------
(* SpecEnumerate: Sessions read through one wrapper over an endpoint whose   *)
(* session enumerator holds entries of every kind                            *)

InitEnumerate ==
    /\ \E devState \in {"Active", "Unplugged"}, hasEnumerator \in BOOLEAN :
          mmdevices = <<Endpoint(str(<<"dev0">>), devState, NoStore, hasEnumerator, <<>>)>>
    /\ deviceEnumerator = <<"IMMDeviceEnumerator">>
    /\ activations = [i \in Interfaces |-> <<>>]
    /\ device = AudioDevice(IMMDevice(1))
    /\ firstRead = None
    /\ IdleSession
    /\ IdleHost
    /\ last = NativeStep

NextEnumerate ==
    \/ \E entry \in ProcessEntries : NativeAddSession(1, entry)
    \/ \E devState \in {"Active", "Unplugged"} : NativeSetState(devState)
    \/ Callstate
    \/ \E outcome \in ActivateOutcomes : CallSessions(outcome)

SpecEnumerate == InitEnumerate /\ [][NextEnumerate]_vars

\* a Sessions read on a wrapper whose cached state is Active and whose
\* session manager is activated
ActiveRead ==
    /\ last.op = "Sessions"
    /\ device._state = AudioDeviceState("Active")
    /\ str(iid("IAudioSessionManager2")) \in DOMAIN device._interfaces

-----------------------------------------------------------------------------
(* ActivateInterface calls that fail (SpecActivate) *)

\* the native Activate calls of the last operation
ActivateCalls == {k \in DOMAIN last.native : last.native[k][1] = "Activate"}

\* C18: an ActivateInterface call raises exactly when its native Activate or
\* QueryInterface fails; such a call has made one native Activate call and no
\* second attempt and leaves the wrapper, its cache included, as it was with no
\* entry for the type; while the last activation of a type has failed the
\* type is not stored, and every call for a type that is not stored starts
\* with a native Activate call.
C18_FailurePropagates ==
    /\ last.op = "ActivateInterface" =>
           /\ last.raised <=>
                  /\ ActivateCalls # {}
                  /\ activations[last.arg][Len(activations[last.arg])] # "ok"
           /\ last.raised =>
                  /\ Cardinality(ActivateCalls) = 1
                  /\ Len(last.native) <= 2
                  /\ device = last.pre
                  /\ str(iid(last.arg)) \notin DOMAIN device._interfaces
           /\ (iid(last.arg) # None /\ str(iid(last.arg)) \notin DOMAIN last.pre._interfaces) =>
                  /\ last.native # <<>>
                  /\ last.native[1] = <<"Activate", last.arg>>
    /\ \A i \in Interfaces :
           (activations[i] # <<>> /\ activations[i][Len(activations[i])] # "ok") =>
               str(iid(i)) \notin DOMAIN device._interfaces

\* C18 witness: after a call whose narrowing failed, the next call for the
\* same type activates again and stores the handle
C18_Witness ==
    /\ last.op = "ActivateInterface"
    /\ activations[last.arg] = <<"QueryInterfaceFails", "ok">>
    /\ ActivateCalls # {}
    /\ last.ret = Handle(last.arg, 2)
    /\ str(iid(last.arg)) \notin DOMAIN last.pre._interfaces

-----------------------------------------------------------------------------
(* SpecRace: threads inside ActivateInterface on one AudioDevice wrapper,    *)
(* with no lock, one statement at a time; the native calls succeed           *)

\* the same assignment storing None instead of the narrowed interface
StoreNone(w, interface_name, interface) ==
    [w EXCEPT !._interfaces = DictSet(@, interface_name, None)]

\* line 54: self._interfaces[interface_name] = interface
StoreInterface(w, interface_name, interface) ==
    [w EXCEPT !._interfaces = DictSet(@, interface_name, interface)]

\* a thread outside ActivateInterface
IdleThread == [pc |-> "idle", interface |-> None, local |-> None, ret |-> None]

RaceInterfaces == {"IAudioEndpointVolume", "IAudioSessionManager2"}

InitRace ==
    /\ IdleDevice
    /\ IdleSession
    /\ processes = EmptyDict
    /\ threads = [t \in 1..MaxThreads |-> IdleThread]
    /\ last = NativeStep

\* thread t took a step: its record becomes th
Stepped(t, th) ==
    /\ threads' = [threads EXCEPT ![t] = th]
    /\ UNCHANGED <<mmdevices, deviceEnumerator, firstRead, sessionVars, processes, last>>

\* lines 44-49: the call is entered for a descriptor with a type identifier
ThreadEnter(t, interface) ==
    /\ threads[t].pc = "idle"
    /\ Stepped(t, [pc |-> "check", interface |-> <<interface>>, local |-> None, ret |-> None])
    /\ UNCHANGED <<device, activations>>

\* line 51: if interface_name not in self._interfaces
ThreadCheck(t) ==
    /\ threads[t].pc = "check"
    /\ Stepped(t, [threads[t] EXCEPT !.pc =
                       IF str(iid(threads[t].interface[1])) \notin DOMAIN device._interfaces
                       THEN "activate" ELSE "return"])
    /\ UNCHANGED <<device, activations>>

\* line 52: activated = self._dev.Activate(...)
ThreadActivate(t) ==
    /\ threads[t].pc = "activate"
    /\ Len(activations[threads[t].interface[1]]) < MaxActivate
    /\ activations' = [activations EXCEPT ![threads[t].interface[1]] = Append(@, "ok")]
    /\ Stepped(t, [threads[t] EXCEPT
                       !.pc = "query",
                       !.local = <<"activated", Len(activations[threads[t].interface[1]]) + 1>>])
    /\ UNCHANGED device

\* line 53: interface = activated.QueryInterface(interface)
ThreadQueryInterface(t) ==
    /\ threads[t].pc = "query"
    /\ Stepped(t, [threads[t] EXCEPT
                       !.pc = "store",
                       !.local = Handle(threads[t].interface[1], threads[t].local[2])])
    /\ UNCHANGED <<device, activations>>

\* line 54
ThreadStore(t) ==
    /\ threads[t].pc = "store"
    /\ device' = StoreInterface(device, str(iid(threads[t].interface[1])), threads[t].local)
    /\ Stepped(t, [threads[t] EXCEPT !.pc = "return"])
    /\ UNCHANGED activations

\* line 56: return self._interfaces[interface_name]
ThreadReturn(t) ==
    /\ threads[t].pc = "return"
    /\ Stepped(t, [threads[t] EXCEPT
                       !.pc = "done",
                       !.ret = device._interfaces[str(iid(threads[t].interface[1]))]])
    /\ UNCHANGED <<device, activations>>

\* the caller goes on and may call again
ThreadLeave(t) ==
    /\ threads[t].pc = "done"
    /\ Stepped(t, IdleThread)
    /\ UNCHANGED <<device, activations>>

NextRace ==
    \E t \in 1..MaxThreads :
        \/ \E interface \in RaceInterfaces : ThreadEnter(t, interface)
        \/ ThreadCheck(t)
        \/ ThreadActivate(t)
        \/ ThreadQueryInterface(t)
        \/ ThreadStore(t)
        \/ ThreadReturn(t)
        \/ ThreadLeave(t)

SpecRace == InitRace /\ [][NextRace]_vars

\* the handles the native activations of interface i have produced
Produced(i) == {Handle(i, k) : k \in 1..Len(activations[i])}

\* the threads that have returned from a call for interface i
Returned(i) ==
    {t \in 1..MaxThreads : threads[t].pc = "done" /\ threads[t].interface = <<i>>}

\* C19: in every interleaving, once a caller has returned from
\* ActivateInterface for a type the cache holds one handle for the type, it
\* and the handle each caller returned are handles produced by native
\* activations of that type, and no more activations were made than there are
\* threads; two callers of one type can make the native Activate call twice
\* (the witness).
C19_RaceOutcome ==
    \A i \in RaceInterfaces :
        /\ Len(activations[i]) <= MaxThreads
        /\ Returned(i) # {} =>
               /\ str(iid(i)) \in DOMAIN device._interfaces
               /\ device._interfaces[str(iid(i))] \in Produced(i)
               /\ \A t \in Returned(i) : threads[t].ret \in Produced(i)

\* C19 witness: two callers of one type have both returned, the native
\* Activate call was made twice and the callers hold different handles
C19_Witness ==
    \E i \in RaceInterfaces :
        /\ {1, 2} \subseteq Returned(i)
        /\ Len(activations[i]) = 2
        /\ threads[1].ret # threads[2].ret
        /\ device._interfaces[str(iid(i))] \in Produced(i)

-----------------------------------------------------------------------------
(* register_notification calls whose native registration fails (SpecSession) *)

\* the callbacks whose native registration succeeded among the calls
RegisteredIn(calls) ==
    {calls[k][2] : k \in {j \in DOMAIN calls :
                              /\ calls[j][1] = "RegisterAudioSessionNotification"
                              /\ calls[j][3] = "ok"}}

\* C20: the session records a callback only when the native registration of
\* that callback succeeded: after a register_notification whose native call
\* failed _callback is still None, so while no registration has succeeded a
\* register_notification makes the native registration call and an
\* unregister_notification makes no native call.
C20_RecordedOnSuccessOnly ==
    /\ session._callback # None => session._callback \in RegisteredIn(ctlCalls)
    /\ (last.op = "register_notification" /\ RegisteredIn(last.pre.calls) = {}) =>
           "RegisterAudioSessionNotification" \in NativeNames
    /\ (last.op = "unregister_notification" /\ RegisteredIn(last.pre.calls) = {}) =>
           last.native = <<>>

====
